---- MODULE Spec2Model ----
(***************************************************************************)
(* Model of programs/task-3-defi-cli/defi_protocol.py: the token cache of  *)
(* SwapAggregator, the venue slippage formulas, simulate_swap,             *)
(* find_best_route and DeFiManager.execute_swap with its execution log.    *)
(*                                                                         *)
(* Units.  Python floats and Decimals are modelled by scaled integers:     *)
(*   slippage, price impact, max_slippage : 1/1000 of a percent            *)
(*                                          (1.0 % = 1000, 0.01 % = 10)    *)
(*   amount (raw, "wei")                  : 10^17 raw units, so that       *)
(*                                          float(amount)/1e18 = amount/10 *)
(*   liquidity                            : 1000 USD                       *)
(*   price_usd, market_cap, volume_24h    : 1 USD                          *)
(* Divisions round towards minus infinity (\div); the logarithm is the     *)
(* series of Ln1p below, a few units of 10^-5 under the real value.        *)
(* Strings whose characters the code inspects (addresses, symbols) are     *)
(* sequences of one-character strings.                                     *)
(***************************************************************************)
EXTENDS Integers, Sequences, FiniteSets, TLC

\* ------------------------------------------------------------------------
\* Bounds of the model
\* ------------------------------------------------------------------------
MaxLog == 3

\* ------------------------------------------------------------------------
\* Enumerations
\* ------------------------------------------------------------------------
Chain == {"ethereum", "polygon", "arbitrum", "optimism", "base"}

DEX == {"uniswap_v3", "uniswap_v2", "1inch", "curve", "balancer"}

\* ------------------------------------------------------------------------
\* Python string helpers (str.upper, str.lower, slicing, "in")
\* ------------------------------------------------------------------------
upper(c) ==
  CASE c = "a" -> "A" [] c = "b" -> "B" [] c = "c" -> "C" [] c = "d" -> "D"
    [] c = "e" -> "E" [] c = "f" -> "F" [] c = "h" -> "H" [] c = "i" -> "I"
    [] c = "s" -> "S" [] c = "t" -> "T" [] c = "u" -> "U" [] c = "x" -> "X"
    [] OTHER -> c

lower(c) ==
  CASE c = "A" -> "a" [] c = "B" -> "b" [] c = "C" -> "c" [] c = "D" -> "d"
    [] c = "E" -> "e" [] c = "F" -> "f" [] c = "H" -> "h" [] c = "I" -> "i"
    [] c = "S" -> "s" [] c = "T" -> "t" [] c = "U" -> "u" [] c = "X" -> "x"
    [] OTHER -> c

StrUpper(s) == [i \in 1..Len(s) |-> upper(s[i])]

StrLower(s) == [i \in 1..Len(s) |-> lower(s[i])]

\* s[-n:]
LastChars(s, n) == IF Len(s) <= n THEN s ELSE SubSeq(s, Len(s) - n + 1, Len(s))

\* needle in s
Contains(s, needle) ==
  \E i \in 0..(Len(s) - Len(needle)) : SubSeq(s, i + 1, i + Len(needle)) = needle

Repeat(c, n) == [i \in 1..n |-> c]

\* ------------------------------------------------------------------------
\* Python exceptions and results
\* ------------------------------------------------------------------------
Raise(exc) == [exc |-> exc, kind |-> "raise"]

None == [kind |-> "none"]

\* Python's "*" on two numbers: float * Decimal and Decimal * float are not
\* defined (decimal.Decimal.__mul__/__rmul__ return NotImplemented for a
\* float), every other pairing of int, float and Decimal is.
MulDefined(ta, tb) ==
  \/ ta = tb
  \/ "int" \in {ta, tb}

\* ------------------------------------------------------------------------
\* Fixed-point arithmetic
\* ------------------------------------------------------------------------
Min(a, b) == IF a <= b THEN a ELSE b

Max(a, b) == IF a >= b THEN a ELSE b

\* floor(n * 10^5 / d) for 0 <= n < 2 * 10^6 and 0 < d < 2 * 10^7, computed
\* in two steps of long division so that no product leaves 32 bits
Scale5Div(n, d) ==
  LET q1 == (n * 1000) \div d
      r1 == (n * 1000) % d
  IN  q1 * 100 + (r1 * 100) \div d

\* 10^5 * ln(m / 10^5) for 10^5 <= m < 2 * 10^5, by
\* ln(m) = 2 * atanh((m - 1) / (m + 1)) = 2 * (z + z^3/3 + z^5/5 + ...)
LnMantissa(m) ==
  LET z  == Scale5Div(m - 100000, m + 100000)
      z2 == (z * z) \div 100000
      t3 == (z2 * z) \div 100000
      t5 == (t3 * z2) \div 100000
      t7 == (t5 * z2) \div 100000
      t9 == (t7 * z2) \div 100000
  IN  2 * (z + t3 \div 3 + t5 \div 5 + t7 \div 7 + t9 \div 9)

\* math.log: 10^5 * ln(x / 10^5) for x >= 1, by halving or doubling x into
\* [10^5, 2 * 10^5) and adding or subtracting 10^5 * ln 2 = 69315
RECURSIVE Ln(_)
Ln(x) ==
  IF x >= 200000 THEN 69315 + Ln(x \div 2)
  ELSE IF x < 100000 THEN Ln(2 * x) - 69315
  ELSE LnMantissa(x)

\* ------------------------------------------------------------------------
\* Venue pricing model (SwapAggregator._calculate_*_slippage)
\* ------------------------------------------------------------------------
\* slippage returned when the pool has no liquidity data: 1.0 %
NoLiquiditySlippage == 1000

\* math.log raises ValueError for an argument <= 0:
\* 1 + ratio * 50 <= 0 with ratio = (amount / 10) / (1000 * liquidity)
V3DomainError(amount, liquidity) ==
  liquidity > 0 /\ 200 * liquidity + amount <= 0

\* the logarithmic curve without its upper clamp
_calculate_v3_slippage_no_cap(amount, liquidity) ==
  IF liquidity <= 0 THEN NoLiquiditySlippage
  ELSE LET y == (500 * amount) \div liquidity
       IN  Max(10, Ln(Max(1, 100000 + y)))

_calculate_v3_slippage(amount, liquidity) ==
  IF liquidity <= 0 THEN NoLiquiditySlippage
  ELSE LET y == (500 * amount) \div liquidity        \* 10^5 * ratio * 50
       IN  Min(50000, Max(10, Ln(Max(1, 100000 + y))))

_calculate_constant_product_slippage(amount, liquidity) ==
  IF liquidity <= 0 THEN NoLiquiditySlippage
  ELSE LET ratio == (10 * amount) \div liquidity     \* 10^5 * ratio
       IN  IF amount > 0 THEN Scale5Div(ratio, 100000 + ratio) ELSE 10


\* ------------------------------------------------------------------------
\* TokenInfo and the token cache (SwapAggregator.fetch_token_info)
\* ------------------------------------------------------------------------
TokenInfo(address, symbol, name, decimals, price_usd, liquidity, market_cap, volume_24h) ==
  [liquidity |-> liquidity, address |-> address, symbol |-> symbol, name |-> name,
   decimals |-> decimals, price_usd |-> price_usd,
   market_cap |-> market_cap, volume_24h |-> volume_24h]

\* decimals given to every fetched token
FetchedDecimals == 18

\* What requests.get(...).json() and the reads of the try block can do.
\* stage "ok": a JSON object came back, holding the entry `body` under the
\* lower-cased address when `present`; any other stage raises the exception
\* of StageException inside the try block.
FetchStages == {"ok", "connection_error", "timeout", "invalid_json", "not_an_object"}

StageException(stage) ==
  CASE stage = "connection_error" -> "ConnectionError"
    [] stage = "timeout"          -> "Timeout"
    [] stage = "invalid_json"     -> "JSONDecodeError"
    [] stage = "not_an_object"    -> "AttributeError"

\* an except clause for the errors of requests only
caught_request_errors(exc) == exc \in {"ConnectionError", "Timeout"}

\* except Exception: the four exceptions all derive from Exception
caught(exc) == exc \in {"ConnectionError", "Timeout", "JSONDecodeError", "AttributeError"}

\* try/except of fetch_token_info: the three values taken from the response,
\* or the exception that leaves the try statement
price_data(response) ==
  IF response.stage = "ok"
  THEN IF response.present
       THEN [kind |-> "data", market_cap |-> response.body.usd_market_cap,
             volume_24h |-> response.body.usd_24h_vol,
             price |-> response.body.usd]
       ELSE [kind |-> "data", market_cap |-> 0, volume_24h |-> 0, price |-> 0]
  ELSE IF caught(StageException(response.stage))
       THEN [kind |-> "data", market_cap |-> 0, volume_24h |-> 0, price |-> 0]
       ELSE Raise(StageException(response.stage))

\* cache_key = f"{chain.value}:{token_address}"; no chain value holds a ":",
\* so the key is the pair
CacheKey(chain, token_address) == <<chain, token_address>>

\* the cache after self.token_cache[cache_key] = token
Store(cache, cache_key, token) ==
  [k \in DOMAIN cache \cup {cache_key} |-> IF k = cache_key THEN token ELSE cache[k]]

\* a fetched token: symbol from the address, 18 decimals, default liquidity
FetchedToken(token_address, d) ==
  TokenInfo(token_address, StrUpper(LastChars(token_address, 4)), "Token",
            FetchedDecimals, d.price, 0, d.market_cap, d.volume_24h)

\* fetch_token_info fetching again when the stored price is 0
fetch_token_info_refreshing(cache, token_address, chain, response) ==
  IF /\ CacheKey(chain, token_address) \in DOMAIN cache
     /\ cache[CacheKey(chain, token_address)].price_usd # 0
  THEN [result |-> [kind |-> "token", token |-> cache[CacheKey(chain, token_address)]],
        token_cache |-> cache, fetched |-> FALSE]
  ELSE IF price_data(response).kind = "raise"
  THEN [result |-> price_data(response), token_cache |-> cache, fetched |-> TRUE]
  ELSE [result |-> [kind |-> "token",
                    token |-> FetchedToken(token_address, price_data(response))],
        token_cache |-> Store(cache, CacheKey(chain, token_address),
                              FetchedToken(token_address, price_data(response))),
        fetched |-> TRUE]

\* Returns the token (or the exception), the cache after the call and
\* whether a request was made.
fetch_token_info(cache, token_address, chain, response) ==
  IF CacheKey(chain, token_address) \in DOMAIN cache
  THEN [result |-> [kind |-> "token", token |-> cache[CacheKey(chain, token_address)]],
        token_cache |-> cache, fetched |-> FALSE]
  ELSE IF price_data(response).kind = "raise"
  THEN [result |-> price_data(response), token_cache |-> cache, fetched |-> TRUE]
  ELSE [result |-> [kind |-> "token",
                    token |-> FetchedToken(token_address, price_data(response))],
        token_cache |-> Store(cache, CacheKey(chain, token_address),
                              FetchedToken(token_address, price_data(response))),
        fetched |-> TRUE]

\* ------------------------------------------------------------------------
\* Route simulation (SwapAggregator.simulate_swap)
\* ------------------------------------------------------------------------
stables ==
  { <<"U","S","D","C">>, <<"U","S","D","T">>, <<"D","A","I">>,
    <<"B","U","S","D">>, <<"F","R","A","X">> }

\* the test without the upper-casing of the symbol
_is_stablecoin_case_sensitive(token) ==
  \E stable \in stables : Contains(token.symbol, stable)

_is_stablecoin(token) ==
  \E stable \in stables : Contains(StrUpper(token.symbol), stable)

\* the if/elif chain over dex: slippage, gas estimate and price impact
venue_pricing(source_token, target_token, amount, dex) ==
  LET v3 == _calculate_v3_slippage(amount, source_token.liquidity)
      v2 == _calculate_constant_product_slippage(amount, source_token.liquidity)
  IN  CASE dex = "uniswap_v3" ->
             [slippage |-> v3, gas_estimate |-> 120000, price_impact |-> (v3 * 6) \div 10]
        [] dex = "uniswap_v2" ->
             [slippage |-> v2, gas_estimate |-> 85000, price_impact |-> (v2 * 8) \div 10]
        [] dex = "1inch" ->
             LET s == (v3 * 7) \div 10
             IN  [slippage |-> s, gas_estimate |-> 150000, price_impact |-> (s * 5) \div 10]
        [] dex = "curve" ->
             LET s == IF _is_stablecoin(source_token) /\ _is_stablecoin(target_token)
                      THEN Max(10, v2 \div 10)
                      ELSE (v3 * 8) \div 10
             IN  [slippage |-> s, gas_estimate |-> 95000, price_impact |-> (s * 4) \div 10]
        [] OTHER ->
             [slippage |-> 500, gas_estimate |-> 120000, price_impact |-> 500]

\* the branches of the chain that evaluate math.log
UsesV3Formula(source_token, target_token, dex) ==
  \/ dex \in {"uniswap_v3", "1inch"}
  \/ dex = "curve" /\ ~(_is_stablecoin(source_token) /\ _is_stablecoin(target_token))

RECURSIVE Pow10(_)
Pow10(n) == IF n <= 0 THEN 1 ELSE 10 * Pow10(n - 1)

\* x / 10^from * 10^to
ScaleDecimals(x, from, to) ==
  IF to >= from THEN x * Pow10(to - from) ELSE x \div Pow10(from - to)

SwapRoute(source_token, target_token, amount_in, expected_output, dex, chain, gas_estimate, price_impact, slippage) ==
  [chain |-> chain, source_token |-> source_token,
   target_token |-> target_token, dex |-> dex,
   slippage |-> slippage, gas_estimate |-> gas_estimate, price_impact |-> price_impact,
   amount_in |-> amount_in, expected_output |-> expected_output]

\* Line 228 divides two Decimals: x / 0 raises decimal.DivisionByZero and
\* 0 / 0 raises decimal.InvalidOperation.  Line 261 multiplies the float
\* amount_with_decimals by the Decimal base_price, which Python does not
\* define: TypeError.  The construction of the route after it is what the
\* code would return if the product were defined.
simulate_swap(source_token, target_token, amount, chain, dex) ==
  IF source_token.price_usd = 0
  THEN Raise(IF target_token.price_usd = 0 THEN "InvalidOperation" ELSE "DivisionByZero")
  ELSE IF UsesV3Formula(source_token, target_token, dex)
          /\ V3DomainError(amount, source_token.liquidity)
  THEN Raise("ValueError")
  ELSE LET v == venue_pricing(source_token, target_token, amount, dex)
       IN  IF ~MulDefined("float", "Decimal")
           THEN Raise("TypeError")
           ELSE LET expected_output_amount ==
                      (amount * target_token.price_usd * (100000 - v.slippage))
                        \div (source_token.price_usd * 100000)
                    expected_output ==
                      ScaleDecimals(expected_output_amount,
                                    source_token.decimals, target_token.decimals)
                IN  [kind |-> "route",
                     route |-> SwapRoute(source_token, target_token, amount,
                                         Max(0, expected_output), dex, chain,
                                         v.gas_estimate, v.price_impact, v.slippage)]

\* ------------------------------------------------------------------------
\* Route scoring and selection (SwapRoute.calculate_total_cost_usd,
\* SwapAggregator.find_best_route)
\* ------------------------------------------------------------------------
\* A cost is whole USD plus millionths of a USD; float('inf') is Inf.
Inf == [usd |-> 0, inf |-> TRUE, micro |-> 0]

ScoreLess(a, b) ==
  /\ ~a.inf
  /\ \/ b.inf
     \/ a.usd < b.usd
     \/ a.usd = b.usd /\ a.micro < b.micro

\* gas_estimate * 50 + amount_in / 10^decimals * (slippage / 100)
calculate_total_cost_usd(route) ==
  LET gas_cost   == route.gas_estimate * 50
      swap_value == ScaleDecimals(route.amount_in, route.source_token.decimals, 18)
      slip_micro == swap_value * route.slippage       \* 10^-6 USD
  IN  [usd |-> gas_cost + slip_micro \div 1000000,
       inf |-> FALSE,
       micro |-> slip_micro % 1000000]

DefaultChains == <<"ethereum">>

DefaultDexes == <<"uniswap_v3", "1inch", "curve">>

\* for chain in chains: for dex in dexes
Candidates(chains, dexes) ==
  [k \in 1..(Len(chains) * Len(dexes)) |->
     [chain |-> chains[((k - 1) \div Len(dexes)) + 1],
      dex   |-> dexes[((k - 1) % Len(dexes)) + 1]]]

\* The loop of find_best_route from candidate k on.  An exception of
\* simulate_swap leaves the loop; `simulated` counts the simulate_swap calls.
RECURSIVE best_route_from(_, _, _, _, _, _, _, _)
best_route_from(cands, k, source_token, target_token, amount, max_slippage, best_route, best_score) ==
  IF k > Len(cands)
  THEN [result |-> best_route, simulated |-> Len(cands)]
  ELSE LET r == simulate_swap(source_token, target_token, amount,
                              cands[k].chain, cands[k].dex)
       IN  IF r.kind = "raise"
           THEN [result |-> r, simulated |-> k]
           ELSE IF r.route.slippage > max_slippage
           THEN best_route_from(cands, k + 1, source_token, target_token, amount,
                                max_slippage, best_route, best_score)
           ELSE LET score == calculate_total_cost_usd(r.route)
                IN  IF ScoreLess(score, best_score)
                    THEN best_route_from(cands, k + 1, source_token, target_token,
                                         amount, max_slippage, r, score)
                    ELSE best_route_from(cands, k + 1, source_token, target_token,
                                         amount, max_slippage, best_route, best_score)

\* chains and dexes are the lists after the None defaults were applied
find_best_route(source_token, target_token, amount, chains, dexes, max_slippage) ==
  best_route_from(Candidates(chains, dexes), 1, source_token, target_token,
                  amount, max_slippage, None, Inf)


\* ------------------------------------------------------------------------
\* Round trips (SwapAggregator.find_arbitrage_opportunities)
\* ------------------------------------------------------------------------
\* the venue list of both legs
ArbitrageDexes == <<"uniswap_v3", "1inch", "curve">>

Abs(x) == IF x >= 0 THEN x ELSE 0 - x

\* for dex in [...]: routes.append(self.simulate_swap(...)), from venue k on;
\* an exception of simulate_swap leaves the function
RECURSIVE simulate_each(_, _, _, _, _)
simulate_each(source_token, target_token, amount, k, routes) ==
  IF k > Len(ArbitrageDexes)
  THEN [kind |-> "routes", routes |-> routes]
  ELSE LET r == simulate_swap(source_token, target_token, amount,
                              "ethereum", ArbitrageDexes[k])
       IN  IF r.kind = "raise"
           THEN r
           ELSE simulate_each(source_token, target_token, amount, k + 1,
                              Append(routes, r.route))

\* profit_percent of one (forward, reverse) pair, in 1/1000 of a percent;
\* token amounts in tenths of a token
profit_percent(route_ab, route_ba, token_a, token_b, amount) ==
  LET output_after_round_trip == ScaleDecimals(route_ab.expected_output, token_b.decimals, 18)
      final_amount == (output_after_round_trip * route_ba.expected_output)
                        \div route_ba.amount_in
      original     == ScaleDecimals(amount, token_a.decimals, 18)
  IN  ((final_amount - original) * 100000) \div original

\* key of the final sort
rank_key(pair) == Abs(pair[1].expected_output - pair[2].amount_in)

\* sorted(..., reverse=True) is stable: a pair goes behind the pairs of a
\* greater or equal key that came before it
RECURSIVE insert_by_key(_, _)
insert_by_key(sorted, pair) ==
  IF sorted = <<>> THEN <<pair>>
  ELSE IF rank_key(Head(sorted)) >= rank_key(pair)
  THEN <<Head(sorted)>> \o insert_by_key(Tail(sorted), pair)
  ELSE <<pair>> \o sorted

RECURSIVE sorted_by_key(_, _)
sorted_by_key(pairs, sorted) ==
  IF pairs = <<>> THEN sorted
  ELSE sorted_by_key(Tail(pairs), insert_by_key(sorted, Head(pairs)))

\* for route_ab in routes_ab: for route_ba in routes_ba
RoutePairs(routes_ab, routes_ba) ==
  [k \in 1..(Len(routes_ab) * Len(routes_ba)) |->
     <<routes_ab[((k - 1) \div Len(routes_ba)) + 1],
       routes_ba[((k - 1) % Len(routes_ba)) + 1]>>]

\* The list of profitable pairs, or the exception raised: the first
\* simulate_swap that raises ends the call, and the float division by
\* route_ba.amount_in or by the original amount raises ZeroDivisionError.
find_arbitrage_opportunities(token_a, token_b, amount) ==
  LET routes_ab == simulate_each(token_a, token_b, amount, 1, <<>>)
      routes_ba == simulate_each(token_b, token_a, amount, 1, <<>>)
      Profitable(pair) == profit_percent(pair[1], pair[2], token_a, token_b, amount) > 500
  IN  IF routes_ab.kind = "raise" THEN routes_ab
      ELSE IF routes_ba.kind = "raise" THEN routes_ba
      ELSE IF amount = 0 \/ ScaleDecimals(amount, token_a.decimals, 18) = 0
      THEN Raise("ZeroDivisionError")
      ELSE [kind |-> "list",
            list |-> sorted_by_key(
                       SelectSeq(RoutePairs(routes_ab.routes, routes_ba.routes), Profitable),
                       <<>>)]

\* ------------------------------------------------------------------------
\* Fee timing (GasOptimizer), prices in 1/1000 gwei
\* ------------------------------------------------------------------------
fetch_gas_prices(chain) ==
  CASE chain = "ethereum" -> [safe |-> 45000, standard |-> 55000, fast |-> 70000]
    [] chain = "polygon"  -> [safe |-> 35000, standard |-> 50000, fast |-> 80000]
    [] chain = "arbitrum" -> [safe |-> 100, standard |-> 150, fast |-> 250]
    [] chain = "optimism" -> [safe |-> 500, standard |-> 1000, fast |-> 2000]
    [] OTHER              -> [safe |-> 50000, standard |-> 70000, fast |-> 100000]

\* the classification with the two tests in the other order
classify_gas_medium_first(current_gwei, average_gwei) ==
  LET medium == current_gwei * 10 > average_gwei * 11
      recommended == IF medium THEN average_gwei ELSE current_gwei
      savings_percent ==
        IF current_gwei > 0
        THEN Scale5Div(Max(0, current_gwei - recommended), current_gwei)
        ELSE 0
  IN  [current_gas_price |-> current_gwei,
       average_gas_price |-> average_gwei,
       recommended_gas_price |-> recommended,
       waiting_time_seconds |-> IF medium THEN 300 ELSE 0,
       gas_savings_percent |-> savings_percent,
       priority |-> IF medium THEN "MEDIUM" ELSE "LOW"]

\* the classification without the test of current_gwei > 0 before dividing
classify_gas_unguarded(current_gwei, average_gwei) ==
  IF current_gwei = 0
  THEN Raise("ZeroDivisionError")
  ELSE LET high   == current_gwei * 10 > average_gwei * 13
           medium == current_gwei * 10 > average_gwei * 11
           recommended == IF high \/ medium THEN average_gwei ELSE current_gwei
       IN  [current_gas_price |-> current_gwei,
            average_gas_price |-> average_gwei,
            recommended_gas_price |-> recommended,
            waiting_time_seconds |-> IF high THEN 600 ELSE IF medium THEN 300 ELSE 0,
            gas_savings_percent |->
              Scale5Div(Max(0, current_gwei - recommended), current_gwei),
            priority |-> IF high THEN "HIGH" ELSE IF medium THEN "MEDIUM" ELSE "LOW"]

\* lines 481-504 of calculate_optimization: the classification of the two
\* levels current_gwei and average_gwei and the GasOptimization built
classify_gas(current_gwei, average_gwei) ==
  LET high   == current_gwei * 10 > average_gwei * 13
      medium == current_gwei * 10 > average_gwei * 11
      recommended  == IF high \/ medium THEN average_gwei ELSE current_gwei
      priority     == IF high THEN "HIGH" ELSE IF medium THEN "MEDIUM" ELSE "LOW"
      waiting_time == IF high THEN 600 ELSE IF medium THEN 300 ELSE 0
      savings_percent ==
        IF current_gwei > 0
        THEN IF current_gwei >= recommended
             THEN Scale5Div(current_gwei - recommended, current_gwei)
             ELSE 0 - Scale5Div(recommended - current_gwei, current_gwei)
        ELSE 0
  IN  [current_gas_price |-> current_gwei,
       average_gas_price |-> average_gwei,
       recommended_gas_price |-> recommended,
       waiting_time_seconds |-> waiting_time,
       gas_savings_percent |-> Max(0, savings_percent),
       priority |-> priority]

\* the plan against an average of 0.7 times the current standard price
calculate_optimization_low_average(chain, gas_units) ==
  LET current_gwei == fetch_gas_prices(chain).standard
      average_gwei == (current_gwei * 7) \div 10
  IN  classify_gas(current_gwei, average_gwei)

calculate_optimization(chain, gas_units) ==
  LET current_gwei == fetch_gas_prices(chain).standard
      average_gwei == (current_gwei * 11) \div 10
  IN  classify_gas(current_gwei, average_gwei)

\* gas_units * gas_price * 0.000000001 * 2500 in millionths of a USD, for a
\* price in 1/1000 gwei: gas_units * gas_price / 400
level_cost(gas_units, gas_price) == ((gas_units \div 200) * gas_price) \div 2

\* GasOptimization.estimate_savings: current_cost - optimal_cost
estimate_savings(optimization, gas_units) ==
  level_cost(gas_units, optimization.current_gas_price)
    - level_cost(gas_units, optimization.recommended_gas_price)

\* ------------------------------------------------------------------------
\* Orchestration (DeFiManager.execute_swap, get_execution_summary)
\* ------------------------------------------------------------------------
\* "0x" + "0"*40 and "0x" + "1"*40
SourceAddress == <<"0", "x">> \o Repeat("0", 40)

TargetAddress == <<"0", "x">> \o Repeat("1", 40)

\* source_token.symbol = source_symbol; target_token.symbol = target_symbol:
\* the two tokens are the cached objects, so the cache changes with them
set_symbols(cache, chain, source_symbol, target_symbol) ==
  [cache EXCEPT ![CacheKey(chain, SourceAddress)].symbol = source_symbol,
                ![CacheKey(chain, TargetAddress)].symbol = target_symbol]

\* execute_swap from the return of find_best_route on: the log after the call
\* and the value returned or the exception raised.  amount is in tenths of a
\* token and so is the expected_output of the record.
record_execution(log, best_route, source_symbol, target_symbol, amount, chain, target_token) ==
  IF best_route.kind = "raise"
  THEN [result |-> best_route, execution_log |-> log]
  ELSE IF best_route = None
  THEN [result |-> [kind |-> "error", message |-> "No viable swap route found"],
        execution_log |-> log]
  ELSE LET gas_opt == calculate_optimization(chain, best_route.route.gas_estimate)
           execution ==
             [timestamp |-> Len(log) + 1,
              swap |-> [amount |-> amount, chain |-> chain,
                        dex |-> best_route.route.dex,
                        expected_output |->
                          ScaleDecimals(best_route.route.expected_output,
                                        target_token.decimals, 18),
                        source |-> source_symbol, target |-> target_symbol],
              metrics |-> [gas_units |-> best_route.route.gas_estimate,
                           slippage_percent |-> best_route.route.slippage,
                           price_impact_percent |-> best_route.route.price_impact,
                           total_cost_usd |-> calculate_total_cost_usd(best_route.route)],
              gas_optimization |->
                [savings_percent |-> gas_opt.gas_savings_percent,
                 priority |-> gas_opt.priority,
                 current_price_gwei |-> gas_opt.current_gas_price,
                 recommended_price_gwei |-> gas_opt.recommended_gas_price]]
       IN  [result |-> [kind |-> "record", record |-> execution],
            execution_log |-> Append(log, execution)]

\* sum(f(ex) for ex in log), for the two sums of the summary
RECURSIVE SumAmount(_)
SumAmount(log) ==
  IF log = <<>> THEN 0 ELSE Head(log).swap.amount + SumAmount(Tail(log))

RECURSIVE SumSlippage(_)
SumSlippage(log) ==
  IF log = <<>> THEN 0 ELSE Head(log).metrics.slippage_percent + SumSlippage(Tail(log))

get_execution_summary(log) ==
  IF log = <<>>
  THEN [total_executions |-> 0, total_volume_usd |-> 0, average_slippage |-> 0]
  ELSE [total_executions |-> Len(log),
        total_volume_usd |-> SumAmount(log),
        average_slippage_percent |-> SumSlippage(log) \div Len(log),
        last_execution |-> log[Len(log)].timestamp]


\* ------------------------------------------------------------------------
\* Inputs of the operations
\* ------------------------------------------------------------------------
\* USDC contract address of the source's yield catalogue
UsdcAddress ==
  <<"0","x","A","0","b","8","6","9","9","1","c","6","2","1","8","b","3","6","c","1","d",
    "1","9","D","4","a","2","e","9","E","b","0","c","E","3","6","0","6","e","B","4","8">>

ETH == <<"E", "T", "H">>

USDC == <<"U", "S", "D", "C">>

DAI == <<"d", "a", "i">>

EthBody == [usd_market_cap |-> 3000, usd_24h_vol |-> 20, usd |-> 2500]

UsdBody == [usd_market_cap |-> 50, usd_24h_vol |-> 5, usd |-> 1]

\* a failed request carries the payload that was on its way
Responses ==
  { [stage |-> "ok", present |-> TRUE, body |-> EthBody],
    [stage |-> "ok", present |-> TRUE, body |-> UsdBody],
    [stage |-> "ok", present |-> FALSE, body |-> UsdBody] }
  \cup [stage : FetchStages \ {"ok"}, present : {TRUE}, body : {EthBody}]

OkEth == [stage |-> "ok", present |-> TRUE, body |-> EthBody]

OkUsd == [stage |-> "ok", present |-> TRUE, body |-> UsdBody]

TimedOut == [stage |-> "timeout", present |-> TRUE, body |-> EthBody]

\* responses to the two requests of one execute_swap call
SwapResponses == { <<OkEth, OkUsd>>, <<OkUsd, OkUsd>>, <<TimedOut, OkUsd>>, <<TimedOut, TimedOut>> }

FetchTargets ==
  { <<"polygon", UsdcAddress>>, <<"ethereum", SourceAddress>>, <<"polygon", SourceAddress>> }

SwapChains == {"ethereum"}

SymbolPairs == { <<ETH, USDC>>, <<USDC, DAI>> }

SwapAmounts == {-10, 0, 15}

SwapCeilings == {50, 5000}

\* descriptors handed to simulate_swap and find_best_route directly
EthToken == TokenInfo(SourceAddress, ETH, "Ether", 18, 2500, 300000, 0, 0)

UsdcToken == TokenInfo(TargetAddress, USDC, "USD Coin", 6, 1, 300000, 0, 0)

DaiToken == TokenInfo(UsdcAddress, DAI, "Dai", 18, 1, 1, 0, 0)

\* a token that is not a stable asset and whose symbol holds "DAI"
DaisyToken == TokenInfo(UsdcAddress, <<"D", "A", "I", "S", "Y">>, "Daisy", 18, 3, 300000, 0, 0)

UnpricedToken == TokenInfo(SourceAddress, <<"0", "0", "0", "0">>, "Token", 18, 0, 0, 0, 0)

\* (source, target) pairs
TokenPairs ==
  { <<EthToken, UsdcToken>>, <<UsdcToken, DaiToken>>, <<DaiToken, EthToken>>,
    <<UnpricedToken, UsdcToken>>, <<UnpricedToken, UnpricedToken>> }

SimulateAmounts == {-300, 15}

RouteAmounts == {15, 1000}

RouteCeilings == {5, 5000}

DexLists == {DefaultDexes, <<"uniswap_v2", "balancer", "curve">>, <<>>}

\* two stable assets as the arbitrage command builds them, priced 1.0 on
\* pools of 100 million USD; 18 decimals so that 1000 tokens are 10000 units
StableA == TokenInfo(SourceAddress, USDC, "USDC", 18, 1, 100000, 0, 0)

StableB == TokenInfo(TargetAddress, <<"U", "S", "D", "T">>, "USDT", 18, 1, 100000, 0, 0)

\* (token_a, token_b) of a round trip, with equal and different decimals
ArbitragePairs ==
  { <<StableA, StableB>>, <<EthToken, UsdcToken>>, <<UsdcToken, EthToken>>,
    <<DaiToken, StableA>>, <<UnpricedToken, UsdcToken>> }

\* 1.5, 100 and 1000 tokens
ArbitrageAmounts == {15, 1000, 10000}

\* fee levels in 1/1000 gwei: 0, 50, 100, 110, 120, 130 and 140 gwei
GasLevels == {0, 50000, 100000, 110000, 120000, 130000, 140000}

GasUnits == {85000, 120000}

\* inputs of the venue chain alone: a stable pair, a non-stable pair and a
\* pair with a non-stable symbol that holds a stable one, pool
\* depths from none to 100 million USD, amounts up to 10 000 tokens
QuotePairs == { <<EthToken, UsdcToken>>, <<UsdcToken, DaiToken>>, <<UsdcToken, DaisyToken>> }

QuoteLiquidity == {0, 1, 300, 100000}

QuoteAmounts == {0, 1, 15, 1000, 10000, 100000}

\* routes built by a caller of SwapRoute.calculate_total_cost_usd: sources of
\* 18 decimals priced 2500, 1 and 3 USD, amounts of 0.1 and 1.5 tokens
CostSources == {EthToken, DaiToken, DaisyToken}

CostAmounts == {1, 15}

\* ------------------------------------------------------------------------
\* State machine
\* ------------------------------------------------------------------------
\* token_cache   : SwapAggregator.token_cache, cache key -> TokenInfo
\* execution_log : DeFiManager.execution_log
\* returned      : number of execute_swap calls that returned a record
\* last          : the last call, with its operation, arguments and outcome
\* calls         : the execute_swap calls of concurrent threads: position,
\*                 arguments, references to the two token objects, outcome
VARIABLES token_cache, execution_log, returned, last, calls

vars == <<token_cache, execution_log, returned, last, calls>>

Threads == {1, 2}

IdleCall == [pc |-> "idle"]

Init ==
  /\ token_cache = [k \in {} |-> None]
  /\ execution_log = <<>>
  /\ returned = 0
  /\ last = [op |-> "init"]
  /\ calls = [t \in Threads |-> IdleCall]

\* Each \E over a one-element set names the value of one statement of the
\* handler.

FetchTokenInfo ==
  \E target \in FetchTargets, response \in Responses :
  \E r \in {fetch_token_info(token_cache, target[2], target[1], response)} :
    /\ token_cache' = r.token_cache
    /\ last' = [response |-> response, chain |-> target[1],
                token_address |-> target[2], result |-> r.result,
                fetched |-> r.fetched, op |-> "fetch_token_info"]
    /\ UNCHANGED <<execution_log, returned, calls>>

\* An exception of either fetch_token_info call leaves execute_swap: it is
\* carried as the outcome of the statements that were not reached.
ExecuteSwap ==
  \E symbols \in SymbolPairs, amount \in SwapAmounts, chain \in SwapChains,
     max_slippage \in SwapCeilings, responses \in SwapResponses :
  \E f0 \in {fetch_token_info(token_cache, SourceAddress, chain, responses[1])} :
  \E f1 \in {IF f0.result.kind = "raise" THEN f0
             ELSE fetch_token_info(f0.token_cache, TargetAddress, chain, responses[2])} :
  \E cache2 \in {IF f1.result.kind = "raise" THEN f1.token_cache
                 ELSE set_symbols(f1.token_cache, chain, symbols[1], symbols[2])} :
  \E best \in {IF f1.result.kind = "raise"
               THEN [result |-> f1.result, simulated |-> 0]
               ELSE find_best_route(
                      cache2[CacheKey(chain, SourceAddress)],
                      cache2[CacheKey(chain, TargetAddress)],
                      ScaleDecimals(amount, 18, cache2[CacheKey(chain, SourceAddress)].decimals),
                      <<chain>>, DefaultDexes, max_slippage)} :
  \E r \in {record_execution(execution_log, best.result, symbols[1], symbols[2],
                             amount, chain, cache2[CacheKey(chain, TargetAddress)])} :
    /\ Len(execution_log) < MaxLog
    /\ token_cache' = cache2
    /\ execution_log' = r.execution_log
    /\ returned' = IF r.result.kind = "record" THEN returned + 1 ELSE returned
    /\ last' = [amount |-> amount, chain |-> chain,
                result |-> r.result, max_slippage |-> max_slippage,
                simulated |-> best.simulated, source_symbol |-> symbols[1],
                target_symbol |-> symbols[2],
                op |-> "execute_swap", log_before |-> execution_log]
    /\ UNCHANGED calls

GetExecutionSummary ==
  /\ last' = [result |-> [kind |-> "summary", summary |-> get_execution_summary(execution_log)],
              op |-> "get_execution_summary"]
  /\ UNCHANGED <<token_cache, execution_log, returned, calls>>

Next ==
  \/ FetchTokenInfo
  \/ ExecuteSwap
  \/ GetExecutionSummary

Spec == Init /\ [][Next]_vars

\* The route functions use no state of the aggregator: they are called on
\* descriptors chosen by the caller.

SimulateSwap ==
  \E pair \in TokenPairs, amount \in SimulateAmounts, dex \in DEX :
  \E r \in {simulate_swap(pair[1], pair[2], amount, "ethereum", dex)} :
    /\ last' = [amount |-> amount, result |-> r,
                source_token |-> pair[1], target_token |-> pair[2], dex |-> dex,
                op |-> "simulate_swap"]
    /\ UNCHANGED <<token_cache, execution_log, returned, calls>>

\* find_best_route keeping the descriptors it was given in the token cache
FindBestRoute_caching ==
  \E pair \in TokenPairs, amount \in RouteAmounts,
     dexes \in DexLists, max_slippage \in RouteCeilings :
  \E r \in {find_best_route(pair[1], pair[2], amount, DefaultChains, dexes, max_slippage)} :
    /\ last' = [amount |-> amount, result |-> r.result,
                source_token |-> pair[1], target_token |-> pair[2],
                chains |-> DefaultChains, dexes |-> dexes,
                max_slippage |-> max_slippage,
                simulated |-> r.simulated, op |-> "find_best_route"]
    /\ token_cache' = Store(token_cache, CacheKey("ethereum", pair[1].address), pair[1])
    /\ UNCHANGED <<execution_log, returned, calls>>

FindBestRoute ==
  \E pair \in TokenPairs, amount \in RouteAmounts,
     dexes \in DexLists, max_slippage \in RouteCeilings :
  \E r \in {find_best_route(pair[1], pair[2], amount, DefaultChains, dexes, max_slippage)} :
    /\ last' = [amount |-> amount, result |-> r.result,
                source_token |-> pair[1], target_token |-> pair[2],
                chains |-> DefaultChains, dexes |-> dexes,
                max_slippage |-> max_slippage,
                simulated |-> r.simulated, op |-> "find_best_route"]
    /\ UNCHANGED <<token_cache, execution_log, returned, calls>>

\* The if/elif chain of simulate_swap (lines 230-257) evaluated for every
\* venue on one pool and two amounts.
QuoteVenues ==
  \E pair \in QuotePairs, liquidity \in QuoteLiquidity,
     amount1 \in QuoteAmounts, amount2 \in QuoteAmounts :
  \E source_token \in {[pair[1] EXCEPT !.liquidity = liquidity]} :
    /\ amount1 <= amount2
    /\ last' = [source_token |-> source_token, target_token |-> pair[2],
                op |-> "quote_venues", amount1 |-> amount1, amount2 |-> amount2,
                quote1 |-> [dex \in DEX |-> venue_pricing(source_token, pair[2], amount1, dex)],
                quote2 |-> [dex \in DEX |-> venue_pricing(source_token, pair[2], amount2, dex)]]
    /\ UNCHANGED <<token_cache, execution_log, returned, calls>>

FindArbitrageOpportunities ==
  \E pair \in ArbitragePairs, amount \in ArbitrageAmounts :
  \E r \in {find_arbitrage_opportunities(pair[1], pair[2], amount)} :
    /\ last' = [amount |-> amount, result |-> r,
                token_a |-> pair[1], token_b |-> pair[2], op |-> "find_arbitrage_opportunities"]
    /\ UNCHANGED <<token_cache, execution_log, returned, calls>>

CalculateOptimization ==
  \E chain \in Chain, gas_units \in GasUnits :
  \E r \in {calculate_optimization(chain, gas_units)} :
    /\ last' = [chain |-> chain, result |-> r,
                gas_units |-> gas_units, op |-> "calculate_optimization"]
    /\ UNCHANGED <<token_cache, execution_log, returned, calls>>

\* The classification of calculate_optimization (lines 481-504) for given
\* values of current_gwei and average_gwei.
ClassifyGas ==
  \E current_gwei \in GasLevels, average_gwei \in GasLevels :
  \E r \in {classify_gas(current_gwei, average_gwei)} :
    /\ last' = [result |-> r, current_gwei |-> current_gwei,
                average_gwei |-> average_gwei, op |-> "classify_gas"]
    /\ UNCHANGED <<token_cache, execution_log, returned, calls>>

\* SwapRoute.calculate_total_cost_usd on a route that carries the slippage,
\* gas estimate and price impact of a venue (lines 230-257).
CalculateTotalCostUsd ==
  \E source_token \in CostSources, amount \in CostAmounts, dex \in DEX :
  \E v \in {venue_pricing(source_token, UsdcToken, amount, dex)} :
  \E route \in {SwapRoute(source_token, UsdcToken, amount, 0, dex, "ethereum",
                          v.gas_estimate, v.price_impact, v.slippage)} :
    /\ last' = [result |-> calculate_total_cost_usd(route), route |-> route,
                op |-> "calculate_total_cost_usd"]
    /\ UNCHANGED <<token_cache, execution_log, returned, calls>>

\* GasOptimization.estimate_savings on the plan of two fee levels, as the
\* gas command calls it on the plan of calculate_optimization.
EstimateSavings ==
  \E current_gwei \in GasLevels, average_gwei \in GasLevels, gas_units \in GasUnits :
  \E optimization \in {classify_gas(current_gwei, average_gwei)} :
    /\ last' = [result |-> estimate_savings(optimization, gas_units), gas_units |-> gas_units,
                optimization |-> optimization,
                op |-> "estimate_savings"]
    /\ UNCHANGED <<token_cache, execution_log, returned, calls>>

RouteNext ==
  \/ SimulateSwap
  \/ FindBestRoute
  \/ QuoteVenues
  \/ FindArbitrageOpportunities
  \/ CalculateOptimization
  \/ ClassifyGas
  \/ CalculateTotalCostUsd
  \/ EstimateSavings

RouteSpec == Init /\ [][RouteNext]_vars

\* The operations of one DeFiManager in any order: the calls that resolve
\* tokens and execute swaps, and the queries on its aggregator, its gas
\* optimizer and its execution log.
ManagerNext ==
  \/ FetchTokenInfo
  \/ ExecuteSwap
  \/ GetExecutionSummary
  \/ FindBestRoute
  \/ FindArbitrageOpportunities
  \/ CalculateOptimization

ManagerSpec == Init /\ [][ManagerNext]_vars

\* ------------------------------------------------------------------------
\* execute_swap called from several threads of one process
\* ------------------------------------------------------------------------
\* A thread holds references to the two TokenInfo objects of its call.  A
\* reference is either to the object the cache entry refers to, or to an
\* object no cache entry refers to any more (another thread stored a new
\* object under the key), kept with its value.
CachedRef == [cached |-> TRUE]

Detached(token) == [token |-> token, cached |-> FALSE]

Deref(ref, cache, address) ==
  IF ref.cached THEN cache[CacheKey("ethereum", address)] ELSE ref.token

\* positions of a call: "source" and "target" are the cache tests of the two
\* fetch_token_info calls, "source_request" and "target_request" the
\* requests in flight, "source_symbol" and "target_symbol" lines 579 and 580,
\* "route" lines 582-621
AddressAt(pc) ==
  IF pc \in {"source", "source_request"} THEN SourceAddress ELSE TargetAddress

\* the call after fetch_token_info returned the object of ref
WithToken(call, ref) ==
  IF call.pc \in {"source", "source_request"}
  THEN [call EXCEPT !.source = ref, !.pc = "target"]
  ELSE [call EXCEPT !.target = ref, !.pc = "source_symbol"]

\* the call of another thread after the cache entry of address was replaced
DetachFrom(call, cache, address) ==
  IF call.pc = "idle" THEN call
  ELSE IF address = SourceAddress /\ call.source = CachedRef
  THEN [call EXCEPT !.source = Detached(cache[CacheKey("ethereum", address)])]
  ELSE IF address = TargetAddress /\ call.target = CachedRef
  THEN [call EXCEPT !.target = Detached(cache[CacheKey("ethereum", address)])]
  ELSE call

\* the call is between its entry and its return; `overlapped` of a call
\* records that another call was running while it ran
Running(call) == call.pc \notin {"idle", "done"}

CallAmounts == {15}

CallCeilings == {5000}

CallResponses == {OkEth, OkUsd, TimedOut}

BeginSwap(t) ==
  /\ calls[t].pc = "idle"
  /\ \E symbols \in SymbolPairs, amount \in CallAmounts, max_slippage \in CallCeilings :
       calls' = [u \in Threads |->
                   IF u = t
                   THEN [amount |-> amount, result |-> None,
                         max_slippage |-> max_slippage, source_symbol |-> symbols[1],
                         target_symbol |-> symbols[2],
                         source |-> None, target |-> None, pc |-> "source",
                         overlapped |-> \E v \in Threads : Running(calls[v])]
                   ELSE IF Running(calls[u])
                   THEN [calls[u] EXCEPT !.overlapped = TRUE]
                   ELSE calls[u]]
  /\ UNCHANGED <<token_cache, execution_log, returned, last>>

\* line 173: the key is in the cache
CacheHit(t) ==
  /\ calls[t].pc \in {"source", "target"}
  /\ CacheKey("ethereum", AddressAt(calls[t].pc)) \in DOMAIN token_cache
  /\ calls' = [calls EXCEPT ![t] = WithToken(calls[t], CachedRef)]
  /\ UNCHANGED <<token_cache, execution_log, returned, last>>

\* line 173: the key is not in the cache; requests.get of line 181 blocks
SendRequest(t) ==
  /\ calls[t].pc \in {"source", "target"}
  /\ CacheKey("ethereum", AddressAt(calls[t].pc)) \notin DOMAIN token_cache
  /\ calls' = [calls EXCEPT ![t].pc =
                  IF calls[t].pc = "source" THEN "source_request" ELSE "target_request"]
  /\ UNCHANGED <<token_cache, execution_log, returned, last>>

\* lines 182-207: the response, the new TokenInfo and its store in the cache
ReceiveResponse(t) ==
  /\ calls[t].pc \in {"source_request", "target_request"}
  /\ \E response \in CallResponses :
     \E d \in {price_data(response)}, address \in {AddressAt(calls[t].pc)} :
       IF d.kind = "raise"
       THEN /\ calls' = [calls EXCEPT ![t].pc = "done", ![t].result = d]
            /\ UNCHANGED token_cache
       ELSE /\ token_cache' = Store(token_cache, CacheKey("ethereum", address),
                                    FetchedToken(address, d))
            /\ calls' = [u \in Threads |->
                           IF u = t THEN WithToken(calls[t], CachedRef)
                           ELSE DetachFrom(calls[u], token_cache, address)]
  /\ UNCHANGED <<execution_log, returned, last>>

\* line 579: source_token.symbol = source_symbol
SetSourceSymbol(t) ==
  /\ calls[t].pc = "source_symbol"
  /\ IF calls[t].source.cached
     THEN /\ token_cache' = [token_cache EXCEPT
                               ![CacheKey("ethereum", SourceAddress)].symbol =
                                  calls[t].source_symbol]
          /\ calls' = [calls EXCEPT ![t].pc = "target_symbol"]
     ELSE /\ calls' = [calls EXCEPT ![t].pc = "target_symbol",
                                    ![t].source.token.symbol = calls[t].source_symbol]
          /\ UNCHANGED token_cache
  /\ UNCHANGED <<execution_log, returned, last>>

\* line 580: target_token.symbol = target_symbol
SetTargetSymbol(t) ==
  /\ calls[t].pc = "target_symbol"
  /\ IF calls[t].target.cached
     THEN /\ token_cache' = [token_cache EXCEPT
                               ![CacheKey("ethereum", TargetAddress)].symbol =
                                  calls[t].target_symbol]
          /\ calls' = [calls EXCEPT ![t].pc = "route"]
     ELSE /\ calls' = [calls EXCEPT ![t].pc = "route",
                                    ![t].target.token.symbol = calls[t].target_symbol]
          /\ UNCHANGED token_cache
  /\ UNCHANGED <<execution_log, returned, last>>

\* lines 582-621: the route is computed on the two objects as the thread
\* finds them; list.append is one atomic operation of the interpreter
RouteAndRecord(t) ==
  /\ calls[t].pc = "route"
  /\ \E source_token \in {Deref(calls[t].source, token_cache, SourceAddress)},
        target_token \in {Deref(calls[t].target, token_cache, TargetAddress)} :
     \E best \in {find_best_route(source_token, target_token,
                                  ScaleDecimals(calls[t].amount, 18, source_token.decimals),
                                  <<"ethereum">>, DefaultDexes, calls[t].max_slippage)} :
     \E r \in {record_execution(execution_log, best.result, calls[t].source_symbol,
                                calls[t].target_symbol, calls[t].amount, "ethereum",
                                target_token)} :
       /\ execution_log' = r.execution_log
       /\ returned' = IF r.result.kind = "record" THEN returned + 1 ELSE returned
       /\ calls' = [calls EXCEPT ![t].pc = "done", ![t].result = r.result]
  /\ UNCHANGED <<token_cache, last>>

ConcurrentNext ==
  \E t \in Threads :
    \/ BeginSwap(t)
    \/ CacheHit(t)
    \/ SendRequest(t)
    \/ ReceiveResponse(t)
    \/ SetSourceSymbol(t)
    \/ SetTargetSymbol(t)
    \/ RouteAndRecord(t)

ConcurrentSpec == Init /\ [][ConcurrentNext]_vars

\* ------------------------------------------------------------------------
\* Properties
\* ------------------------------------------------------------------------
\* slippage of the k-th venue of a list, as simulate_swap computes it
SlippageOf(source_token, target_token, amount, dexes, k) ==
  venue_pricing(source_token, target_token, amount, dexes[k]).slippage

\* the tokens execute_swap resolved in its last call
SwapSource == token_cache[CacheKey(last.chain, SourceAddress)]

SwapTarget == token_cache[CacheKey(last.chain, TargetAddress)]

\* C2: if every candidate's slippage is above the ceiling, find_best_route
\* returns None (stated for a priced source and a positive amount).
C2_AllAboveCeilingReturnsNone ==
  ( /\ last.op = "find_best_route"
    /\ last.source_token.price_usd > 0
    /\ last.amount > 0
    /\ \A k \in 1..Len(last.dexes) :
         SlippageOf(last.source_token, last.target_token, last.amount, last.dexes, k)
           > last.max_slippage )
  => last.result = None

\* total cost of the candidate of venue k, as find_best_route scores it
CostOf(source_token, target_token, amount, dexes, k) ==
  LET v == venue_pricing(source_token, target_token, amount, dexes[k])
  IN  calculate_total_cost_usd(
        [source_token |-> source_token, slippage |-> v.slippage,
         gas_estimate |-> v.gas_estimate, amount_in |-> amount])

\* C3: if some candidate passes the ceiling, find_best_route returns the
\* first candidate of minimum total cost among those that pass.
C3_ReturnsFirstMinimumCostSurvivor ==
  ( /\ last.op = "find_best_route"
    /\ last.source_token.price_usd > 0
    /\ last.amount > 0
    /\ \E k \in 1..Len(last.dexes) :
         SlippageOf(last.source_token, last.target_token, last.amount, last.dexes, k)
           <= last.max_slippage )
  => /\ last.result.kind = "route"
     /\ \E k \in 1..Len(last.dexes) :
          LET Passes(j) == SlippageOf(last.source_token, last.target_token,
                                      last.amount, last.dexes, j) <= last.max_slippage
              Cost(j)   == CostOf(last.source_token, last.target_token,
                                  last.amount, last.dexes, j)
          IN  /\ Passes(k)
              /\ last.result.route.dex = last.dexes[k]
              /\ \A j \in 1..Len(last.dexes) :
                   Passes(j) => /\ ~ScoreLess(Cost(j), Cost(k))
                                /\ (j < k => ScoreLess(Cost(k), Cost(j)))

\* C4: an execute_swap call for which a viable route exists appends exactly
\* one record and returns it; the log is as long as the number of calls that
\* returned a record.
C4_ViableCallAppendsOneRecord ==
  /\ Len(execution_log) = returned
  /\ ( /\ last.op = "execute_swap"
       /\ SwapSource.price_usd > 0
       /\ last.amount > 0
       /\ \E k \in 1..Len(DefaultDexes) :
            SlippageOf(SwapSource, SwapTarget, last.amount, DefaultDexes, k)
              <= last.max_slippage )
     => /\ last.result.kind = "record"
        /\ execution_log = Append(last.log_before, last.result.record)

\* C6: when no candidate survives the ceiling, execute_swap returns the
\* error result instead of raising and leaves the log unchanged.
C6_NoViableRouteIsReported ==
  ( /\ last.op = "execute_swap"
    /\ SwapSource.price_usd > 0
    /\ last.amount > 0
    /\ \A k \in 1..Len(DefaultDexes) :
         SlippageOf(SwapSource, SwapTarget, last.amount, DefaultDexes, k)
           > last.max_slippage )
  => /\ last.result.kind = "error"
     /\ execution_log = last.log_before

\* C7: execute_swap with amount <= 0 returns an error, simulates no venue
\* and appends nothing.
C7_NonPositiveAmountRejected ==
  (last.op = "execute_swap" /\ last.amount <= 0)
  => /\ last.result.kind = "error"
     /\ last.simulated = 0
     /\ execution_log = last.log_before

\* slippage a venue gives when the pool has no liquidity data: 1.0 % from
\* either formula, scaled as the venue scales it
FallbackSlippage(source_token, target_token, dex) ==
  CASE dex \in {"uniswap_v3", "uniswap_v2"} -> 1000
    [] dex = "1inch" -> 700
    [] dex = "curve" -> IF _is_stablecoin(source_token) /\ _is_stablecoin(target_token)
                        THEN 100 ELSE 800
    [] OTHER -> 500

\* C8: simulate_swap never fails on degraded input (amount > 0): without
\* liquidity data it returns a route with the venue's fallback slippage, and
\* with a source price of 0 it returns a route with expected_output 0.
C8_DegradedInputIsNotFatal ==
  ( /\ last.op = "simulate_swap"
    /\ last.amount > 0
    /\ last.source_token.liquidity <= 0 \/ last.source_token.price_usd = 0 )
  => /\ last.result.kind = "route"
     /\ last.source_token.price_usd = 0 => last.result.route.expected_output = 0
     /\ last.source_token.liquidity <= 0 =>
          last.result.route.slippage =
            FallbackSlippage(last.source_token, last.target_token, last.dex)

\* C9: fetch_token_info returns a token, never an exception, and after a
\* failed request the token has decimals >= 0, price 0 and liquidity 0.
C9_FetchFailureGivesZeroedToken ==
  last.op = "fetch_token_info"
  => /\ last.result.kind = "token"
     /\ (last.fetched /\ last.response.stage # "ok")
        => /\ last.result.token.decimals >= 0
           /\ last.result.token.price_usd = 0
           /\ last.result.token.liquidity = 0

\* a request that failed while parsing a priced payload, answered by a token
C9_Witness ==
  /\ last.op = "fetch_token_info"
  /\ last.fetched
  /\ last.response.stage = "invalid_json"
  /\ last.response.present /\ last.response.body.usd > 0
  /\ last.result.kind = "token"
  /\ last.result.token.price_usd = 0
  /\ token_cache[CacheKey(last.chain, last.token_address)] = last.result.token

\* C10: the end-to-end scenario: execute_swap for ETH resolved at 2500 and
\* USDC resolved at 1.0, amount 1.5, Ethereum, ceiling 5.0, returns a record
\* whose expected output is between 3375 and 3750 USDC and appends it once.
C10_EndToEndOutputInBand ==
  ( /\ last.op = "execute_swap"
    /\ last.chain = "ethereum"
    /\ last.source_symbol = ETH /\ last.target_symbol = USDC
    /\ SwapSource.price_usd = 2500 /\ SwapTarget.price_usd = 1
    /\ last.amount = 15 /\ last.max_slippage = 5000 )
  => /\ last.result.kind = "record"
     /\ 33750 <= last.result.record.swap.expected_output
     /\ last.result.record.swap.expected_output <= 37500
     /\ execution_log = Append(last.log_before, last.result.record)

\* C11: on a pool with liquidity > 0 every venue's slippage for a positive
\* amount is between 0 and 100 %, and a larger amount never gets a smaller
\* slippage on the same pool.
C11_SlippageBoundedAndMonotone ==
  ( /\ last.op = "quote_venues"
    /\ last.source_token.liquidity > 0
    /\ last.amount1 > 0 )
  => \A dex \in DEX :
       /\ 0 <= last.quote1[dex].slippage /\ last.quote1[dex].slippage <= 100000
       /\ 0 <= last.quote2[dex].slippage /\ last.quote2[dex].slippage <= 100000
       /\ last.quote1[dex].slippage <= last.quote2[dex].slippage

\* a shallow pool on which the larger amount reaches the 50 % clamp of the
\* logarithmic curve and the smaller one does not
C11_Witness ==
  /\ last.op = "quote_venues"
  /\ last.source_token.liquidity > 0
  /\ 0 < last.amount1 /\ last.amount1 < last.amount2
  /\ last.quote1["uniswap_v3"].slippage < last.quote2["uniswap_v3"].slippage
  /\ last.quote2["uniswap_v3"].slippage = 50000
  /\ last.quote1["uniswap_v2"].slippage < last.quote2["uniswap_v2"].slippage

\* C12: simulate_swap with a positive source price and a positive amount
\* returns a route with expected_output >= 0 and slippage and price impact
\* between 0 and 100 %, for every venue.
C12_SimulateReturnsBoundedRoute ==
  ( /\ last.op = "simulate_swap"
    /\ last.source_token.price_usd > 0
    /\ last.amount > 0 )
  => /\ last.result.kind = "route"
     /\ last.result.route.expected_output >= 0
     /\ 0 <= last.result.route.slippage /\ last.result.route.slippage <= 100000
     /\ 0 <= last.result.route.price_impact /\ last.result.route.price_impact <= 100000

\* the stable pair of the quotes: USDC to dai
QuotedStablePair ==
  /\ last.op = "quote_venues"
  /\ last.source_token.symbol = USDC
  /\ last.target_token.symbol = DAI

\* C13 as stated: for two stable assets the curve venue's slippage is at
\* most one tenth of the uniswap_v2 venue's slippage on the same pool and
\* amount.
C13_CurveAtMostTenthOfV2 ==
  QuotedStablePair
  => /\ 10 * last.quote1["curve"].slippage <= last.quote1["uniswap_v2"].slippage
     /\ 10 * last.quote2["curve"].slippage <= last.quote2["uniswap_v2"].slippage

\* C13 amended: for two stable assets the curve venue's slippage is at most
\* one tenth of the uniswap_v2 slippage when the latter is at least 0.1 %,
\* and is the floor 0.01 % when it is below.
C13_CurveTenthOfV2AboveFloor ==
  QuotedStablePair
  => \A q \in {last.quote1, last.quote2} :
       /\ q["uniswap_v2"].slippage >= 100 => 10 * q["curve"].slippage <= q["uniswap_v2"].slippage
       /\ q["uniswap_v2"].slippage < 100 => q["curve"].slippage = 10

\* a stable pair quoted once under the floor and once above it
C13_Witness ==
  /\ QuotedStablePair
  /\ last.amount1 > 0
  /\ last.quote1["uniswap_v2"].slippage < 100
  /\ last.quote1["curve"].slippage = 10
  /\ last.quote2["uniswap_v2"].slippage >= 100
  /\ last.quote2["curve"].slippage > 10

\* C14: the round trip of 1000 units between two stable assets priced 1.0 on
\* pools of 100 million USD is evaluated, and the (curve, curve) pair is not
\* among the reported cycles.
C14_StableRoundTripNotReported ==
  ( /\ last.op = "find_arbitrage_opportunities"
    /\ last.token_a = StableA /\ last.token_b = StableB
    /\ last.amount = 10000 )
  => /\ last.result.kind = "list"
     /\ \A k \in 1..Len(last.result.list) :
          ~( last.result.list[k][1].dex = "curve" /\ last.result.list[k][2].dex = "curve" )

\* C15: the plan for levels (current, average) is HIGH, wait 600,
\* recommended = average when current > 1.3 * average; else MEDIUM, wait 300,
\* recommended = average when current > 1.1 * average; else LOW, wait 0,
\* recommended = current.  (100, 50) gives HIGH, 600, 50 and savings 50 %;
\* current = average gives LOW, 0 and savings 0.
C15_OrderedClassification ==
  last.op = "classify_gas"
  => LET plan == last.result
         current == last.current_gwei
         average == last.average_gwei
     IN  /\ 10 * current > 13 * average
              => /\ plan.priority = "HIGH" /\ plan.waiting_time_seconds = 600
                 /\ plan.recommended_gas_price = average
         /\ (10 * current <= 13 * average /\ 10 * current > 11 * average)
              => /\ plan.priority = "MEDIUM" /\ plan.waiting_time_seconds = 300
                 /\ plan.recommended_gas_price = average
         /\ 10 * current <= 11 * average
              => /\ plan.priority = "LOW" /\ plan.waiting_time_seconds = 0
                 /\ plan.recommended_gas_price = current
         /\ (current = 100000 /\ average = 50000) => plan.gas_savings_percent = 50000
         /\ current = average => plan.gas_savings_percent = 0

\* the plan of the levels (100, 50)
C15_Witness ==
  /\ last.op = "classify_gas"
  /\ last.current_gwei = 100000 /\ last.average_gwei = 50000
  /\ last.result.priority = "HIGH"
  /\ last.result.waiting_time_seconds = 600
  /\ last.result.recommended_gas_price = 50000
  /\ last.result.gas_savings_percent = 50000

\* C16: every plan has savings percent (current - recommended) / current *
\* 100 floored at 0, a wait >= 0 and a priority among URGENT, HIGH, MEDIUM
\* and LOW; a current level of 0 gives savings 0 and no division error.
C16_PlanWellFormed ==
  last.op \in {"classify_gas", "calculate_optimization"}
  => /\ last.result # Raise("ZeroDivisionError")
     /\ last.result.gas_savings_percent >= 0
     /\ last.result.waiting_time_seconds \in Nat
     /\ last.result.priority \in {"URGENT", "HIGH", "MEDIUM", "LOW"}
     /\ last.result.current_gas_price = 0 => last.result.gas_savings_percent = 0
     /\ last.result.current_gas_price > 0 =>
          last.result.gas_savings_percent =
            Max(0, ((last.result.current_gas_price - last.result.recommended_gas_price)
                      * 1000) \div (last.result.current_gas_price \div 100))

\* the plan of a current level of 0 against an average of 50 gwei
C16_Witness ==
  /\ last.op = "classify_gas"
  /\ last.current_gwei = 0 /\ last.average_gwei = 50000
  /\ last.result.gas_savings_percent = 0
  /\ last.result.priority = "LOW"

\* the record of a call when the same request runs alone: its two tokens
\* carry its own symbols and the log is empty
AloneResult(call) ==
  LET source_token == [Deref(call.source, token_cache, SourceAddress)
                         EXCEPT !.symbol = call.source_symbol]
      target_token == [Deref(call.target, token_cache, TargetAddress)
                         EXCEPT !.symbol = call.target_symbol]
      best == find_best_route(source_token, target_token,
                              ScaleDecimals(call.amount, 18, source_token.decimals),
                              <<"ethereum">>, DefaultDexes, call.max_slippage)
  IN  record_execution(<<>>, best.result, call.source_symbol, call.target_symbol,
                       call.amount, "ethereum", target_token).result

\* C18: when two execute_swap calls for different symbol pairs ran
\* concurrently (priced source, positive amount), each returned a record
\* whose venue, slippage and expected output are those of the same request
\* run alone.
C18_ConcurrentRecordEqualsAlone ==
  ( /\ \A t \in Threads : calls[t].pc = "done" /\ calls[t].overlapped
    /\ calls[1].source_symbol # calls[2].source_symbol )
  => \A t \in Threads :
       ( /\ Deref(calls[t].source, token_cache, SourceAddress).price_usd > 0
         /\ calls[t].amount > 0 )
       => /\ calls[t].result.kind = "record"
          /\ AloneResult(calls[t]).kind = "record"
          /\ calls[t].result.record.swap.dex = AloneResult(calls[t]).record.swap.dex
          /\ calls[t].result.record.metrics.slippage_percent
               = AloneResult(calls[t]).record.metrics.slippage_percent
          /\ calls[t].result.record.swap.expected_output
               = AloneResult(calls[t]).record.swap.expected_output

\* a round trip between two priced assets with a positive amount
PricedRoundTrip ==
  /\ last.op = "find_arbitrage_opportunities"
  /\ last.token_a.price_usd > 0 /\ last.token_b.price_usd > 0
  /\ last.amount > 0

\* C19: for two assets with positive prices, of equal or different decimals,
\* the round trips are computed and none ends above the original amount: the
\* list of profitable cycles is returned and is empty.
C19_RoundTripFabricatesNoValue ==
  PricedRoundTrip
  => /\ last.result.kind = "list"
     /\ last.result.list = <<>>

\* forward route of venue i and reverse route of venue j of the last call
ForwardRoute(i) ==
  simulate_swap(last.token_a, last.token_b, last.amount, "ethereum", ArbitrageDexes[i]).route

ReverseRoute(j) ==
  simulate_swap(last.token_b, last.token_a, last.amount, "ethereum", ArbitrageDexes[j]).route

\* C20: find_arbitrage_opportunities returns a list of at most |venues|^2
\* pairs, which holds exactly the (forward, reverse) pairs of profit percent
\* > 0.5 and is ordered non-increasing by
\* |forward.expected_output - reverse.amount_in|.
C20_ExactlyProfitablePairsRanked ==
  PricedRoundTrip
  => /\ last.result.kind = "list"
     /\ Len(last.result.list) <= Len(ArbitrageDexes) * Len(ArbitrageDexes)
     /\ \A i, j \in 1..Len(ArbitrageDexes) :
          (profit_percent(ForwardRoute(i), ReverseRoute(j),
                          last.token_a, last.token_b, last.amount) > 500)
          <=> \E k \in 1..Len(last.result.list) :
                last.result.list[k] = <<ForwardRoute(i), ReverseRoute(j)>>
     /\ \A k \in 1..(Len(last.result.list) - 1) :
          rank_key(last.result.list[k]) >= rank_key(last.result.list[k + 1])

\* membership of a token's symbol in the reference set, letter case aside
IsListedStable(token) == StrUpper(token.symbol) \in stables

\* C21: the curve venue's slippage is max(0.01, uniswap_v2's / 10) when both
\* symbols are members of {USDC, USDT, DAI, BUSD, FRAX}, and is 0.8 times the
\* uniswap_v3 slippage for every pair with a symbol that is not a member.
C21_StableFormulaOnlyForListedSymbols ==
  last.op = "quote_venues"
  => /\ last.quote1["curve"].slippage
          = IF IsListedStable(last.source_token) /\ IsListedStable(last.target_token)
            THEN Max(10, last.quote1["uniswap_v2"].slippage \div 10)
            ELSE (last.quote1["uniswap_v3"].slippage * 8) \div 10
     /\ last.quote2["curve"].slippage
          = IF IsListedStable(last.source_token) /\ IsListedStable(last.target_token)
            THEN Max(10, last.quote2["uniswap_v2"].slippage \div 10)
            ELSE (last.quote2["uniswap_v3"].slippage * 8) \div 10

\* the cost of a route on the USD value of the trade: normalized amount
\* times the source price, times slippage / 100, plus gas at 50 USD a unit
CostOnUsdValue(route) ==
  LET swap_value_usd == ScaleDecimals(route.amount_in, route.source_token.decimals, 18)
                          * route.source_token.price_usd
      slip_micro     == swap_value_usd * route.slippage
  IN  [usd |-> route.gas_estimate * 50 + slip_micro \div 1000000,
       inf |-> FALSE,
       micro |-> slip_micro % 1000000]

\* C22: the total cost of a route is swap_value_usd * (slippage / 100)
\* + gas_estimate * one fixed USD price per gas unit, where swap_value_usd
\* is the normalized source amount times the source token's USD price.
C22_CostIsOnUsdValueOfTrade ==
  last.op = "calculate_total_cost_usd"
  => last.result = CostOnUsdValue(last.route)

\* a route that costs its gas only: nothing is swapped
GasOnlyRoute(gas_units) ==
  SwapRoute(EthToken, UsdcToken, 0, 0, "uniswap_v3", "ethereum", gas_units, 0, 0)

\* an amount of millionths of a USD as a cost
MicroUsd(n) == [usd |-> n \div 1000000, inf |-> FALSE, micro |-> n % 1000000]

\* C23: estimate_savings returns the cost at the current level minus the cost
\* at the recommended level, and the USD cost it gives to gas_units units of
\* gas at either level is the cost that calculate_total_cost_usd gives to a
\* gas estimate of gas_units.
C23_SavingsUseRouteGasConversion ==
  last.op = "estimate_savings"
  => /\ last.result
          = level_cost(last.gas_units, last.optimization.current_gas_price)
            - level_cost(last.gas_units, last.optimization.recommended_gas_price)
     /\ MicroUsd(level_cost(last.gas_units, last.optimization.current_gas_price))
          = calculate_total_cost_usd(GasOnlyRoute(last.gas_units))
     /\ MicroUsd(level_cost(last.gas_units, last.optimization.recommended_gas_price))
          = calculate_total_cost_usd(GasOnlyRoute(last.gas_units))

\* the operations that C24 says change nothing
QueryOps ==
  {"find_best_route", "find_arbitrage_opportunities", "calculate_optimization",
   "get_execution_summary"}

\* C24: in any sequence of calls, a call of find_best_route,
\* find_arbitrage_opportunities, calculate_optimization or
\* get_execution_summary leaves the execution history and the token cache as
\* they were, whatever it returns or raises; the history and the cache
\* change only in execute_swap and in the token resolution it calls.
C24_QueriesLeaveStateUnchanged ==
  [][ /\ last'.op \in QueryOps => UNCHANGED <<token_cache, execution_log>>
      /\ (token_cache' # token_cache \/ execution_log' # execution_log)
           => last'.op \in {"execute_swap", "fetch_token_info"} ]_vars

\* a route query that raised on a manager whose cache holds tokens
C24_Witness ==
  /\ last.op = "find_best_route"
  /\ last.result.kind = "raise"
  /\ DOMAIN token_cache # {}

\* a plan that advises nothing: LOW, no wait, the current price, no savings
PlanIsLow(plan) ==
  /\ plan.priority = "LOW"
  /\ plan.waiting_time_seconds = 0
  /\ plan.recommended_gas_price = plan.current_gas_price
  /\ plan.gas_savings_percent = 0

\* the record lines 592-620 build for a route of gas_units units on chain
RecordOfRoute(chain, gas_units) ==
  record_execution(<<>>,
                   [kind |-> "route",
                    route |-> SwapRoute(EthToken, DaiToken, 15, 0, "uniswap_v3", chain,
                                        gas_units, 0, 0)],
                   ETH, DAI, 15, chain, DaiToken).result.record

\* C25: for every network, known or defaulted, the plan of
\* calculate_optimization has priority LOW, waiting time 0, the current
\* price as recommended price and savings 0; the record execute_swap builds
\* from that plan, and every record in the log, carries LOW and savings 0.
C25_PlanAlwaysLow ==
  /\ last.op = "calculate_optimization"
       => /\ PlanIsLow(last.result)
          /\ last.result.average_gas_price > last.result.current_gas_price
          /\ RecordOfRoute(last.chain, last.gas_units).gas_optimization.priority = "LOW"
          /\ RecordOfRoute(last.chain, last.gas_units).gas_optimization.savings_percent = 0
  /\ \A i \in 1..Len(execution_log) :
       /\ execution_log[i].gas_optimization.priority = "LOW"
       /\ execution_log[i].gas_optimization.savings_percent = 0

\* the plan of a network without an entry in gas_data
C25_Witness ==
  /\ last.op = "calculate_optimization"
  /\ last.chain = "base"
  /\ last.result.current_gas_price = 70000
  /\ last.result.priority = "LOW"

====
